---- MODULE Spec2Model ----
(***************************************************************************)
(* Model of the Ollama + MCP connector (src/Connector.py).                 *)
(*                                                                         *)
(* Text is modelled character by character with TLA+ strings; JSON values  *)
(* are tagged records [k |-> kind, v |-> payload]; an HTTP exchange is one *)
(* outcome drawn from a finite set of things the remote service can do.    *)
(***************************************************************************)
EXTENDS Integers, Sequences, FiniteSets, TLC

(***************************************************************************)
(* Characters and Python string methods                                    *)
(***************************************************************************)

\* the character at position i of s, "" outside the string
Ch(s, i) == IF i >= 1 /\ i <= Len(s) THEN SubSeq(s, i, i) ELSE ""

UpperChars == "ABCDEFGHIJKLMNOPQRSTUVWXYZ"
LowerChars == "abcdefghijklmnopqrstuvwxyz"
Digits == "0123456789"

\* position of the one-character string c in alphabet, 0 when absent
IndexIn(alphabet, c) ==
    IF \E i \in 1..Len(alphabet) : SubSeq(alphabet, i, i) = c
    THEN CHOOSE i \in 1..Len(alphabet) : SubSeq(alphabet, i, i) = c
    ELSE 0

UpperSet == {Ch(UpperChars, i) : i \in 1..26}
LowerSet == {Ch(LowerChars, i) : i \in 1..26}
DigitSet == {Ch(Digits, i) : i \in 1..10}

\* the lower-case letter of each upper-case letter
ToLower == [c \in UpperSet |-> Ch(LowerChars, IndexIn(UpperChars, c))]

LowerChar(c) == IF c \in UpperSet THEN ToLower[c] ELSE c

RECURSIVE Lower(_)
\* str.lower()
Lower(s) == IF s = "" THEN "" ELSE LowerChar(Head(s)) \o Lower(Tail(s))

\* the `in` operator on two strings: needle is a substring of hay
Contains(hay, needle) ==
    \E i \in 1..(Len(hay) - Len(needle) + 1) :
        SubSeq(hay, i, i + Len(needle) - 1) = needle

\* characters matched by \s and removed by str.strip()
Whitespace == {" ", "\t", "\n", "\r", "\f"}

RECURSIVE LStrip(_)
LStrip(s) == IF s # "" /\ Head(s) \in Whitespace THEN LStrip(Tail(s)) ELSE s

RECURSIVE RStrip(_)
RStrip(s) ==
    IF s # "" /\ Ch(s, Len(s)) \in Whitespace
    THEN RStrip(SubSeq(s, 1, Len(s) - 1))
    ELSE s

\* str.strip()
Strip(s) == RStrip(LStrip(s))

(***************************************************************************)
(* JSON values as Python sees them                                         *)
(***************************************************************************)

Null == [k |-> "null"]
Bool(b) == [k |-> "bool", v |-> b]
Num(n) == [k |-> "num", v |-> n]
Str(s) == [k |-> "str", v |-> s]
List(q) == [k |-> "list", v |-> q]
Obj(f) == [k |-> "obj", v |-> f]

EmptyObj == Obj(<<>>)

IsStr(j) == j.k = "str"
IsObj(j) == j.k = "obj"


\* `x is not None` in place of bool(x)
Truthy_NotNone(j) == j.k # "null"

\* bool(j): what `if not x` tests
Truthy(j) ==
    CASE j.k = "null" -> FALSE
      [] j.k = "bool" -> j.v
      [] j.k = "num" -> j.v # 0
      [] j.k = "str" -> j.v # ""
      [] j.k = "list" -> Len(j.v) > 0
      [] j.k = "obj" -> DOMAIN j.v # {}

RECURSIVE NatToStr(_)
NatToStr(n) ==
    IF n < 10 THEN Ch(Digits, n + 1)
    ELSE NatToStr(n \div 10) \o Ch(Digits, (n % 10) + 1)

\* f"{j}" for the values a tool text can take in this model
PyFormat(j) ==
    CASE j.k = "str" -> j.v
      [] j.k = "null" -> "None"
      [] j.k = "bool" -> IF j.v THEN "True" ELSE "False"
      [] j.k = "num" -> IF j.v < 0 THEN "-" \o NatToStr(0 - j.v) ELSE NatToStr(j.v)
      [] OTHER -> "<repr>"

(***************************************************************************)
(* json.loads on the subset of JSON used here: objects, arrays, strings    *)
(* without escapes, integers, true, false, null                            *)
(***************************************************************************)

JsonWs == {" ", "\t", "\n", "\r"}

ParseFail == [ok |-> FALSE, val |-> Null, pos |-> 0]
ParseOk(val, pos) == [ok |-> TRUE, val |-> val, pos |-> pos]

RECURSIVE SkipWs(_, _)
SkipWs(s, i) == IF Ch(s, i) \in JsonWs THEN SkipWs(s, i + 1) ELSE i

RECURSIVE DigitRun(_, _)
\* first position at or after i that holds no digit
DigitRun(s, i) == IF Ch(s, i) \in DigitSet THEN DigitRun(s, i + 1) ELSE i

RECURSIVE StrToNat(_)
StrToNat(d) ==
    IF d = "" THEN 0
    ELSE 10 * StrToNat(SubSeq(d, 1, Len(d) - 1)) + (IndexIn(Digits, Ch(d, Len(d))) - 1)

\* a number starting at i: 0, or a run of digits not starting with 0
ParseNat(s, i) ==
    IF Ch(s, i) = "0" THEN ParseOk(Num(0), i + 1)
    ELSE IF Ch(s, i) \in DigitSet
         THEN ParseOk(Num(StrToNat(SubSeq(s, i, DigitRun(s, i) - 1))), DigitRun(s, i))
         ELSE ParseFail

ParseNumber(s, i) ==
    IF Ch(s, i) = "-"
    THEN LET r == ParseNat(s, i + 1)
         IN IF r.ok THEN ParseOk(Num(0 - r.val.v), r.pos) ELSE ParseFail
    ELSE ParseNat(s, i)

\* a string starting at the quote at i; control characters are rejected
ParseString(s, i) ==
    IF Ch(s, i) # "\"" THEN ParseFail
    ELSE IF \E j \in (i + 1)..Len(s) : Ch(s, j) = "\""
         THEN LET close == CHOOSE j \in (i + 1)..Len(s) :
                               /\ Ch(s, j) = "\""
                               /\ \A m \in (i + 1)..(j - 1) : Ch(s, m) # "\""
                  body == SubSeq(s, i + 1, close - 1)
              IN IF \E m \in 1..Len(body) : Ch(body, m) \in {"\t", "\n", "\r", "\\"}
                 THEN ParseFail
                 ELSE ParseOk(Str(body), close + 1)
         ELSE ParseFail

ParseLiteral(s, i, word, val) ==
    IF i + Len(word) - 1 <= Len(s) /\ SubSeq(s, i, i + Len(word) - 1) = word
    THEN ParseOk(val, i + Len(word))
    ELSE ParseFail

RECURSIVE ParseValue(_, _), ParseItems(_, _, _), ParseMembers(_, _, _)

ParseValue(s, i) ==
    CASE Ch(s, i) = "{" ->
            LET j == SkipWs(s, i + 1)
            IN IF Ch(s, j) = "}" THEN ParseOk(EmptyObj, j + 1)
               ELSE ParseMembers(s, j, <<>>)
      [] Ch(s, i) = "[" ->
            LET j == SkipWs(s, i + 1)
            IN IF Ch(s, j) = "]" THEN ParseOk(List(<<>>), j + 1)
               ELSE ParseItems(s, j, <<>>)
      [] Ch(s, i) = "\"" -> ParseString(s, i)
      [] Ch(s, i) = "n" -> ParseLiteral(s, i, "null", Null)
      [] Ch(s, i) = "t" -> ParseLiteral(s, i, "true", Bool(TRUE))
      [] Ch(s, i) = "f" -> ParseLiteral(s, i, "false", Bool(FALSE))
      [] OTHER -> ParseNumber(s, i)

\* the elements of an array from position i on, acc holding those before
ParseItems(s, i, acc) ==
    LET r == ParseValue(s, i)
    IN IF ~r.ok THEN ParseFail
       ELSE LET j == SkipWs(s, r.pos)
            IN CASE Ch(s, j) = "," -> ParseItems(s, SkipWs(s, j + 1), Append(acc, r.val))
                 [] Ch(s, j) = "]" -> ParseOk(List(Append(acc, r.val)), j + 1)
                 [] OTHER -> ParseFail

\* the members of an object from position i on; a repeated key keeps the last
ParseMembers(s, i, acc) ==
    LET key == ParseString(s, i)
    IN IF ~key.ok THEN ParseFail
       ELSE LET c == SkipWs(s, key.pos)
            IN IF Ch(s, c) # ":" THEN ParseFail
               ELSE LET r == ParseValue(s, SkipWs(s, c + 1))
                    IN IF ~r.ok THEN ParseFail
                       ELSE LET j == SkipWs(s, r.pos)
                                acc2 == (key.val.v :> r.val) @@ acc
                            IN CASE Ch(s, j) = "," -> ParseMembers(s, SkipWs(s, j + 1), acc2)
                                 [] Ch(s, j) = "}" -> ParseOk(Obj(acc2), j + 1)
                                 [] OTHER -> ParseFail

\* json.loads(s): [ok |-> FALSE] stands for the ValueError it raises
JsonLoads(s) ==
    LET r == ParseValue(s, SkipWs(s, 1))
    IN IF r.ok /\ SkipWs(s, r.pos) = Len(s) + 1 THEN r ELSE ParseFail

(***************************************************************************)
(* Configuration (Connector.py, lines 21-25) and gateway retry bounds      *)
(***************************************************************************)

ALERT_KEYWORDS == <<"rain", "drizzle", "shower", "storm">>
DEFAULT_CITY == "Chennai"
OllamaMaxRetries == 3
McpMaxRetries == 2

OllamaSentinel == "[Error: Ollama request failed after retries]"

\* a local that the current turn has not assigned
Unset == [k |-> "unset"]

(***************************************************************************)
(* What one HTTP attempt can meet.  A reply carries the status, the body   *)
(* as r.json() sees it (ok = FALSE when r.json() raises) and r.text.       *)
(***************************************************************************)

TransportError == [kind |-> "exception"]
Interrupt == [kind |-> "interrupt"]
Reply(status, val, text) ==
    [kind |-> "reply", status |-> status, json |-> ParseOk(val, 0), text |-> text]
BadBody(status, text) ==
    [kind |-> "reply", status |-> status, json |-> ParseFail, text |-> text]

(***************************************************************************)
(* ask_ollama                                                              *)
(***************************************************************************)

\* the attempt returns: r.json() parsed and data.get did not raise
OllamaAttemptReturns(o) == o.kind = "reply" /\ o.json.ok /\ IsObj(o.json.val)

\* data.get("response", r.text)
OllamaValue(o) ==
    IF "response" \in DOMAIN o.json.val.v THEN o.json.val.v["response"] ELSE Str(o.text)

\* ask_ollama without the retry: the first failed attempt already gives up
AskOllamaFrom_NoRetry(script, attempt, sleeps) ==
    LET o == script[attempt]
    IN IF OllamaAttemptReturns(o)
       THEN [raised |-> FALSE, ret |-> OllamaValue(o),
             attempts |-> attempt, sleeps |-> sleeps]
       ELSE [raised |-> o.kind = "interrupt",
             ret |-> IF o.kind = "interrupt" THEN Unset ELSE Str(OllamaSentinel),
             attempts |-> attempt, sleeps |-> sleeps]

RECURSIVE AskOllamaFrom(_, _, _)
\* the loop of ask_ollama from attempt number `attempt` (1-based) on
AskOllamaFrom(script, attempt, sleeps) ==
    IF attempt > OllamaMaxRetries
    THEN [raised |-> FALSE, ret |-> Str(OllamaSentinel),
          attempts |-> attempt - 1, sleeps |-> sleeps]
    ELSE LET o == script[attempt]
         IN CASE o.kind = "interrupt" ->
                    [raised |-> TRUE, ret |-> Unset, attempts |-> attempt, sleeps |-> sleeps]
              [] OllamaAttemptReturns(o) ->
                    [raised |-> FALSE, ret |-> OllamaValue(o),
                     attempts |-> attempt, sleeps |-> sleeps]
              [] OTHER -> AskOllamaFrom(script, attempt + 1, sleeps + 1)


\* giving up by raising instead of returning the sentinel
ask_ollama_Raises(script) ==
    LET r == AskOllamaFrom(script, 1, 0)
    IN IF r.ret = Str(OllamaSentinel) THEN [r EXCEPT !.raised = TRUE, !.ret = Unset] ELSE r

ask_ollama(script) == AskOllamaFrom(script, 1, 0)

(***************************************************************************)
(* call_mcp_tool                                                           *)
(***************************************************************************)

McpPayload(tool, args) == Obj([tool |-> tool, arguments |-> args])

McpFailed(tool) == Obj([error |-> Str("MCP call failed for " \o PyFormat(tool))])

RECURSIVE CallMcpFrom(_, _, _, _)
CallMcpFrom(tool, script, attempt, sleeps) ==
    IF attempt > McpMaxRetries
    THEN [raised |-> FALSE, ret |-> McpFailed(tool),
          attempts |-> attempt - 1, sleeps |-> sleeps]
    ELSE LET o == script[attempt]
         IN CASE o.kind = "interrupt" ->
                    [raised |-> TRUE, ret |-> Unset, attempts |-> attempt, sleeps |-> sleeps]
              [] o.kind = "exception" ->
                    CallMcpFrom(tool, script, attempt + 1, sleeps + 1)
              [] o.kind = "reply" /\ o.status = 200 /\ o.json.ok ->
                    [raised |-> FALSE, ret |-> o.json.val,
                     attempts |-> attempt, sleeps |-> sleeps]
              [] o.kind = "reply" /\ o.status = 200 /\ ~o.json.ok ->
                    CallMcpFrom(tool, script, attempt + 1, sleeps + 1)
              [] OTHER -> CallMcpFrom(tool, script, attempt + 1, sleeps)

call_mcp_tool(tool, script) == CallMcpFrom(tool, script, 1, 0)

(***************************************************************************)
(* detect_tool_call                                                        *)
(***************************************************************************)

\* position of the first c at or after position from, 0 when there is none
FirstIndex(s, c, from) ==
    IF \E i \in from..Len(s) : Ch(s, i) = c
    THEN CHOOSE i \in from..Len(s) :
             Ch(s, i) = c /\ \A m \in from..(i - 1) : Ch(s, m) # c
    ELSE 0

\* re.search(r"\{[\s\S]*?\}", text): from the first "{" to the first "}"
\* after it; "" stands for no match
JsonBlock(text) ==
    LET open == FirstIndex(text, "{", 1)
        close == IF open = 0 THEN 0 ELSE FirstIndex(text, "}", open + 1)
    IN IF close = 0 THEN "" ELSE SubSeq(text, open, close)

NoToolCall == [tool |-> Null, args |-> Null]

detect_tool_call(text) ==
    LET block == JsonBlock(text)
        j == JsonLoads(block)
    IN IF block # "" /\ j.ok /\ IsObj(j.val)
          /\ "name" \in DOMAIN j.val.v /\ "arguments" \in DOMAIN j.val.v
       THEN [tool |-> j.val.v["name"], args |-> j.val.v["arguments"]]
       ELSE NoToolCall

(***************************************************************************)
(* Heuristic fallback of chat_loop (lines 125-135)                         *)
(***************************************************************************)

CityChars == {" "} \cup UpperSet \cup LowerSet

RECURSIVE RunEnd(_, _, _)
\* last position of the maximal run of characters of class starting at i
\* (i - 1 when the run is empty)
RunEnd(s, i, class) == IF Ch(s, i) \in class THEN RunEnd(s, i + 1, class) ELSE i - 1

\* the match of in\s+([A-Za-z ]+) that starts at position i, if any: \s+ takes
\* the longest run of whitespace and gives characters back until the group
\* can start; [ok, from, to] delimit the group
CityMatchAt(s, i) ==
    LET wsEnd == RunEnd(s, i + 2, Whitespace)
        starts == {g \in (i + 3)..(wsEnd + 1) : Ch(s, g) \in CityChars}
    IN IF SubSeq(s, i, IF i + 1 <= Len(s) THEN i + 1 ELSE i - 1) = "in" /\ starts # {}
       THEN LET g == CHOOSE a \in starts : \A b \in starts : b <= a
            IN [ok |-> TRUE, from |-> g, to |-> RunEnd(s, g, CityChars)]
       ELSE [ok |-> FALSE, from |-> 0, to |-> 0]

RECURSIVE CityFindAll(_, _)
\* re.findall(r"in\s+([A-Za-z ]+)", s) scanning from position i
CityFindAll(s, i) ==
    IF i > Len(s) THEN <<>>
    ELSE LET m == CityMatchAt(s, i)
         IN IF m.ok THEN <<SubSeq(s, m.from, m.to)>> \o CityFindAll(s, m.to + 1)
            ELSE CityFindAll(s, i + 1)

\* lines 128-129
FallbackCity(user_input) ==
    LET city_match == CityFindAll(user_input, 1)
    IN IF city_match # <<>> THEN Strip(city_match[1]) ELSE DEFAULT_CITY

\* the fallback with the notify rule blind to "alert"
Fallback_NotifyOnly(user_input, detected) ==
    IF Truthy(detected.tool) THEN detected
    ELSE IF Contains(Lower(user_input), "weather")
         THEN [tool |-> Str("get_weather"),
               args |-> Obj([city |-> Str(FallbackCity(user_input))])]
         ELSE IF Contains(Lower(user_input), "notify")
              THEN [tool |-> Str("send_notification"),
                    args |-> Obj([notification_input |->
                                      Str(user_input \o "|general_alerts")])]
              ELSE detected

\* the fallback with the notify rule written `"notify" or "alert" in ...`,
\* which Python evaluates to true for every input
Fallback_NotifyAlways(user_input, detected) ==
    IF Truthy(detected.tool) THEN detected
    ELSE IF Contains(Lower(user_input), "weather")
         THEN [tool |-> Str("get_weather"),
               args |-> Obj([city |-> Str(FallbackCity(user_input))])]
         ELSE [tool |-> Str("send_notification"),
               args |-> Obj([notification_input |->
                                 Str(user_input \o "|general_alerts")])]

\* lines 125-135: the invocation after the fallback, given what
\* detect_tool_call returned
Fallback(user_input, detected) ==
    IF Truthy(detected.tool) THEN detected
    ELSE IF Contains(Lower(user_input), "weather")
         THEN [tool |-> Str("get_weather"),
               args |-> Obj([city |-> Str(FallbackCity(user_input))])]
         ELSE IF Contains(Lower(user_input), "notify") \/ Contains(Lower(user_input), "alert")
              THEN [tool |-> Str("send_notification"),
                    args |-> Obj([notification_input |->
                                      Str(user_input \o "|general_alerts")])]
              ELSE detected

(***************************************************************************)
(* Result extraction of chat_loop (lines 145-149 and 166-170)              *)
(***************************************************************************)

Raised(exc) == [raised |-> TRUE, exc |-> exc, val |-> Unset]
Returned(val) == [raised |-> FALSE, exc |-> "", val |-> val]


\* j[key] in place of j.get(key, default)
PyGet_NoDefault(j, key, default) ==
    IF ~IsObj(j) THEN Raised("TypeError")
    ELSE IF key \in DOMAIN j.v THEN Returned(j.v[key]) ELSE Raised("KeyError")

\* j.get(key, default) on a JSON value j
PyGet(j, key, default) ==
    IF ~IsObj(j) THEN Raised("AttributeError")
    ELSE Returned(IF key \in DOMAIN j.v THEN j.v[key] ELSE default)

\* j[0]
PyFirst(j) ==
    CASE j.k = "list" -> IF Len(j.v) > 0 THEN Returned(j.v[1]) ELSE Raised("IndexError")
      [] j.k = "str" -> IF j.v # "" THEN Returned(Str(Head(j.v))) ELSE Raised("IndexError")
      [] j.k = "obj" -> Raised("KeyError")
      [] OTHER -> Raised("TypeError")

\* resp.get("result", {}).get("content", [{}])[0].get("text", "")
ExtractText(resp) ==
    LET result == PyGet(resp, "result", EmptyObj)
    IN IF result.raised THEN result
       ELSE LET content == PyGet(result.val, "content", List(<<EmptyObj>>))
            IN IF content.raised THEN content
               ELSE LET first == PyFirst(content.val)
                    IN IF first.raised THEN first
                       ELSE PyGet(first.val, "text", Str(""))

\* the keyword test stopping one keyword short
HasAlertKeyword_SkipLast(lower_text) ==
    \E i \in 1..(Len(ALERT_KEYWORDS) - 1) : Contains(lower_text, ALERT_KEYWORDS[i])

\* any(k in lower_text for k in ALERT_KEYWORDS)
HasAlertKeyword(lower_text) ==
    \E i \in 1..Len(ALERT_KEYWORDS) : Contains(lower_text, ALERT_KEYWORDS[i])

(***************************************************************************)
(* The environment: what the user types and what the two services answer   *)
(***************************************************************************)

\* lines read by input(), before .strip()
UserLines ==
    { "weather in Paris",
      "Weather In Paris",
      "what is the weather",
      "weather in  5",
      "weather in Oslo, then in Rome",
      "ALERT: weather in Rome today",
      "notify the team",
      "  Alert ops\n",
      "hello",
      "exit",
      " QUIT " }

EOFError == "EOFError"
KeyboardInterrupt == "KeyboardInterrupt"

\* values of the `response` field of a completion
ModelTexts ==
    { "{\"name\": \"get_weather\", \"arguments\": {\"city\": \"Paris\"}}",
      "Sure. {\"name\": \"send_notification\", \"arguments\": {\"notification_input\": \"hi|team\"}}",
      "{\"name\": \"get_weather\", \"arguments\": \"Paris\"}",
      "{\"name\": \"reboot\", \"arguments\": [1, 2]}",
      "{\"name\": \"\", \"arguments\": 0}",
      "{\"city\": \"Paris\"}",
      "I cannot help with that." }

OllamaReplies ==
    {Reply(200, Obj([response |-> Str(t)]), "{\"response\": ...}") : t \in ModelTexts}
    \cup { Reply(200, Obj([response |-> Null]), "{\"response\": null}"),
           Reply(404, Obj([error |-> Str("model not found")]),
                 "{\"error\": \"model not found\"}") }

\* attempts after which ask_ollama tries again
OllamaFailures ==
    { TransportError,
      BadBody(502, "<html>Bad Gateway</html>"),
      Reply(200, List(<<>>), "[]") }

TextContent(t) == Obj([type |-> Str("text"), text |-> t])
McpResult(content) ==
    Obj([jsonrpc |-> Str("2.0"), id |-> Str("1"), result |-> Obj([content |-> content])])
McpError(code, message) ==
    Obj([jsonrpc |-> Str("2.0"), id |-> Str("1"),
         error |-> Obj([code |-> Num(code), message |-> Str(message)])])

ToolTexts ==
    { "Paris: 18C, light rain expected",
      "Chennai: 30C, THUNDERSTORM",
      "Paris: 21C, clear sky",
      "Notification sent to 'team': drizzle",
      "" }

\* bodies of HTTP 200 replies of the tool server
McpBodies ==
    {McpResult(List(<<TextContent(Str(t))>>)) : t \in ToolTexts}
    \cup { McpResult(List(<<TextContent(Num(7))>>)),
           McpResult(List(<<>>)),
           McpResult(List(<<Obj([type |-> Str("text")])>>)),
           McpResult(Str("rain")),
           McpError(0 - 32601, "Unknown method"),
           Obj([jsonrpc |-> Str("2.0"), id |-> Str("1"), result |-> Null]),
           Obj([result |-> Obj([content |-> List(<<TextContent(Str("storm"))>>)]),
                error |-> Obj([code |-> Num(0 - 32000), message |-> Str("x")])]),
           EmptyObj,
           List(<<Num(1)>>) }

McpReplies == {Reply(200, b, "<json>") : b \in McpBodies}

\* attempts after which call_mcp_tool tries again
McpFailures ==
    { TransportError,
      Reply(500, McpError(0 - 32000, "Internal Server Error"), "<json>"),
      BadBody(200, "<html>proxy login</html>") }

\* sequences of exactly n elements of S
SeqsOfLen(S, n) == [1..n -> S]

\* what the service does on the attempts a call can make: failures, then
\* (unless all max attempts fail) one attempt that ends the call
Scripts(failures, enders, max) ==
    UNION { {f \o <<e>> : f \in SeqsOfLen(failures, n), e \in enders} : n \in 0..(max - 1) }
    \cup SeqsOfLen(failures, max)

OllamaScripts == Scripts(OllamaFailures, OllamaReplies \cup {Interrupt}, OllamaMaxRetries)
McpScripts == Scripts(McpFailures, McpReplies \cup {Interrupt}, McpMaxRetries)

(***************************************************************************)
(* State of chat_loop                                                      *)
(***************************************************************************)

VARIABLES
    pc,            \* where chat_loop is: the state of the turn
    user_input,    \* locals of chat_loop
    model_output,
    tool,
    args,
    mcp_response,
    text,
    notif_result,
    notif_text,
    summary,
    calls,         \* history: the gateway calls of the current turn, in order
    out,           \* history: what the current turn printed and logged
    exhausted,     \* history: for each call of the turn, whether the service
                   \* failed on every attempt the call made
    probe          \* a gateway call made on its own (retry behaviour)

vars == <<pc, user_input, model_output, tool, args, mcp_response, text,
          notif_result, notif_text, summary, calls, out, exhausted, probe>>

locals == <<user_input, model_output, tool, args, mcp_response, text,
            notif_result, notif_text, summary>>

NoProbe == [gw |-> "none"]

OllamaCall(prompt) == [gw |-> "ollama", req |-> Str(prompt)]
McpCall(t, a) == [gw |-> "mcp", req |-> McpPayload(t, a)]

SystemInstruction == "SYSTEM INSTRUCTION: ..."
EnforcedInput(u) ==
    "Reminder: Never show code. Use MCP tools only.\n\nUser request: " \o u
SummaryPrompt(t) == "Summarize in one line, clearly and concisely: " \o PyFormat(t)

Init ==
    /\ pc = "STARTUP"
    /\ user_input = ""
    /\ model_output = Unset
    /\ tool = Unset
    /\ args = Unset
    /\ mcp_response = Unset
    /\ text = Unset
    /\ notif_result = Unset
    /\ notif_text = Unset
    /\ summary = Unset
    /\ calls = <<>>
    /\ out = <<>>
    /\ exhausted = <<>>
    /\ probe = NoProbe

\* the service failed on every one of the max attempts of a call
AllAttemptsFail(script, failures, max) == script \in SeqsOfLen(failures, max)


\* the handler of line 181 leaving the loop instead of continuing
TurnFails_Break(exc) ==
    /\ pc' = "SESSION_ENDED"
    /\ out' = Append(out, "log:unexpected_error:" \o exc)

\* the turn ends in the handler of line 181: log and continue
TurnFails(exc) ==
    /\ pc' = "AWAIT_INPUT"
    /\ out' = Append(out, "log:unexpected_error:" \o exc)

\* the turn ends in the handler of line 178: print and break
SessionInterrupted ==
    /\ pc' = "SESSION_ENDED"
    /\ out' = Append(out, "print:session_ended")

\* lines 105-106: the system instruction is sent outside the try block
Startup ==
    /\ pc = "STARTUP"
    /\ \E script \in OllamaScripts :
         LET r == ask_ollama(script)
         IN /\ calls' = Append(calls, OllamaCall(SystemInstruction))
            /\ exhausted' = Append(exhausted,
                                 AllAttemptsFail(script, OllamaFailures, OllamaMaxRetries))
            /\ IF r.raised
               THEN pc' = "CRASHED" /\ out' = out
               ELSE pc' = "AWAIT_INPUT" /\ out' = Append(out, "log:system_prompt_initialized")
    /\ UNCHANGED <<locals, probe>>


\* end of input treated as the end of the session
InputFails_Break(exc) ==
    /\ pc' = "SESSION_ENDED"
    /\ out' = <<"log:unexpected_error:" \o exc>>

\* input() raises an exception that is not an interrupt: the handler of
\* line 181 logs it and the loop reads again
InputFails(exc) ==
    /\ pc' = "AWAIT_INPUT"
    /\ out' = <<"log:unexpected_error:" \o exc>>

\* lines 110-113: a new turn starts by reading a line
ReadInput ==
    /\ pc = "AWAIT_INPUT"
    /\ \E line \in UserLines \cup {EOFError, KeyboardInterrupt} :
         /\ model_output' = Unset /\ tool' = Unset /\ args' = Unset
         /\ mcp_response' = Unset /\ text' = Unset /\ notif_result' = Unset
         /\ notif_text' = Unset /\ summary' = Unset
         /\ calls' = <<>>
         /\ exhausted' = <<>>
         /\ CASE line = KeyboardInterrupt ->
                   /\ pc' = "SESSION_ENDED"
                   /\ out' = <<"print:session_ended">>
                   /\ user_input' = ""
              [] line = EOFError ->
                   /\ InputFails("EOFError")
                   /\ user_input' = ""
              [] OTHER ->
                   /\ user_input' = Strip(line)
                   /\ IF Lower(Strip(line)) \in {"exit", "quit"}
                      THEN pc' = "SESSION_ENDED" /\ out' = <<"print:goodbye">>
                      ELSE pc' = "PROMPTED" /\ out' = <<>>
    /\ UNCHANGED probe

\* lines 116-120
Prompt ==
    /\ pc = "PROMPTED"
    /\ \E script \in OllamaScripts :
         LET r == ask_ollama(script)
         IN /\ calls' = Append(calls, OllamaCall(EnforcedInput(user_input)))
            /\ exhausted' = Append(exhausted,
                                 AllAttemptsFail(script, OllamaFailures, OllamaMaxRetries))
            /\ IF r.raised
               THEN SessionInterrupted /\ model_output' = model_output
               ELSE /\ model_output' = r.ret
                    /\ pc' = "RESOLVED"
                    /\ out' = Append(out, "print:ollama")
    /\ UNCHANGED <<user_input, tool, args, mcp_response, text, notif_result,
                   notif_text, summary, probe>>

\* lines 122-142
Resolve ==
    /\ pc = "RESOLVED"
    /\ IF ~IsStr(model_output)
       THEN \* re.search raises TypeError
            TurnFails("TypeError") /\ UNCHANGED <<tool, args>>
       ELSE LET detected == detect_tool_call(model_output.v)
                resolved == Fallback(user_input, detected)
                forced == IF Truthy(detected.tool) THEN <<>>
                          ELSE IF resolved.tool = Str("get_weather")
                               THEN <<"log:forcing_get_weather">>
                               ELSE IF resolved.tool = Str("send_notification")
                                    THEN <<"log:forcing_send_notification">>
                                    ELSE <<>>
            IN /\ tool' = resolved.tool
               /\ args' = resolved.args
               /\ IF ~Truthy(resolved.tool)
                  THEN pc' = "AWAIT_INPUT" /\ out' = out \o forced \o <<"log:no_tool_call">>
                  ELSE pc' = "DISPATCHED" /\ out' = out \o forced \o <<"log:tool_detected">>
    /\ UNCHANGED <<user_input, model_output, mcp_response, text, notif_result,
                   notif_text, summary, calls, exhausted, probe>>

\* lines 143-154
Dispatch ==
    /\ pc = "DISPATCHED"
    /\ \E script \in McpScripts :
         LET r == call_mcp_tool(tool, script)
             e == ExtractText(r.ret)
         IN /\ calls' = Append(calls, McpCall(tool, args))
            /\ exhausted' = Append(exhausted,
                                 AllAttemptsFail(script, McpFailures, McpMaxRetries))
            /\ IF r.raised
               THEN SessionInterrupted /\ UNCHANGED <<mcp_response, text>>
               ELSE /\ mcp_response' = r.ret
                    /\ IF e.raised
                       THEN TurnFails(e.exc) /\ text' = text
                       ELSE /\ text' = e.val
                            /\ IF ~Truthy(e.val)
                               THEN /\ pc' = "AWAIT_INPUT"
                                    /\ out' = Append(out, "log:empty_mcp_result")
                               ELSE /\ pc' = IF tool = Str("get_weather")
                                             THEN "ALERTED" ELSE "SUMMARIZED"
                                    /\ out' = Append(out, "print:mcp_result")
    /\ UNCHANGED <<user_input, model_output, tool, args, notif_result, notif_text,
                   summary, probe>>

\* lines 157-171, entered when tool == "get_weather"
Alert ==
    /\ pc = "ALERTED"
    /\ IF ~IsStr(text)
       THEN \* text.lower() raises
            TurnFails("AttributeError")
            /\ UNCHANGED <<notif_result, notif_text, calls, exhausted>>
       ELSE IF ~HasAlertKeyword(Lower(text.v))
            THEN /\ pc' = "SUMMARIZED"
                 /\ UNCHANGED <<notif_result, notif_text, calls, out, exhausted>>
            ELSE \E script \in McpScripts :
                   LET notif_input == text.v \o "|weather_alerts"
                       r == call_mcp_tool(Str("send_notification"), script)
                       e == ExtractText(r.ret)
                   IN /\ calls' = Append(calls, McpCall(Str("send_notification"),
                                     Obj([notification_input |-> Str(notif_input)])))
                      /\ exhausted' = Append(exhausted,
                                           AllAttemptsFail(script, McpFailures, McpMaxRetries))
                      /\ IF r.raised
                         THEN /\ pc' = "SESSION_ENDED"
                              /\ out' = out \o <<"log:weather_alert_detected",
                                                 "print:session_ended">>
                              /\ UNCHANGED <<notif_result, notif_text>>
                         ELSE /\ notif_result' = r.ret
                              /\ IF e.raised
                                 THEN /\ pc' = "AWAIT_INPUT"
                                      /\ out' = out \o <<"log:weather_alert_detected",
                                                         "log:unexpected_error:" \o e.exc>>
                                      /\ notif_text' = notif_text
                                 ELSE /\ pc' = "SUMMARIZED"
                                      /\ out' = out \o <<"log:weather_alert_detected",
                                                         "log:notification">>
                                      /\ notif_text' = e.val
    /\ UNCHANGED <<user_input, model_output, tool, args, mcp_response, text,
                   summary, probe>>

\* lines 174-176
Summarize ==
    /\ pc = "SUMMARIZED"
    /\ \E script \in OllamaScripts :
         LET r == ask_ollama(script)
         IN /\ calls' = Append(calls, OllamaCall(SummaryPrompt(text)))
            /\ exhausted' = Append(exhausted,
                                 AllAttemptsFail(script, OllamaFailures, OllamaMaxRetries))
            /\ IF r.raised
               THEN SessionInterrupted /\ summary' = summary
               ELSE /\ summary' = r.ret
                    /\ pc' = "AWAIT_INPUT"
                    /\ out' = Append(out, "print:final_answer")
    /\ UNCHANGED <<user_input, model_output, tool, args, mcp_response, text,
                   notif_result, notif_text, probe>>

Next ==
    \/ Startup
    \/ ReadInput
    \/ Prompt
    \/ Resolve
    \/ Dispatch
    \/ Alert
    \/ Summarize

Spec == Init /\ [][Next]_vars

TypeOK == pc \in {"STARTUP", "AWAIT_INPUT", "PROMPTED", "RESOLVED", "DISPATCHED",
                  "ALERTED", "SUMMARIZED", "SESSION_ENDED", "CRASHED", "PROBE",
                  "SERVING"}

(***************************************************************************)
(* The gateways on their own: one call against a service whose behaviour   *)
(* is fixed in advance for max + ExtraAttempts attempts                    *)
(***************************************************************************)

\* attempts beyond the retry bound for which the service's behaviour is fixed
ExtraAttempts == 1

ProbeScripts(failures, enders, max) ==
    UNION { {f \o <<e>> : f \in SeqsOfLen(failures, n), e \in enders \cup failures} :
            n \in 0..(max + ExtraAttempts - 1) }

Probes ==
    {[gw |-> "ollama", script |-> sc, done |-> FALSE, res |-> Unset] :
        sc \in ProbeScripts(OllamaFailures, OllamaReplies, OllamaMaxRetries)}
    \cup
    {[gw |-> "mcp", script |-> sc, done |-> FALSE, res |-> Unset] :
        sc \in ProbeScripts(McpFailures, McpReplies, McpMaxRetries)}

\* the script padded with transport errors, so that every attempt is defined
Padded(script, max) ==
    [i \in 1..max |-> IF i <= Len(script) THEN script[i] ELSE TransportError]

InitRetry ==
    /\ pc = "PROBE"
    /\ user_input = ""
    /\ model_output = Unset
    /\ tool = Unset
    /\ args = Unset
    /\ mcp_response = Unset
    /\ text = Unset
    /\ notif_result = Unset
    /\ notif_text = Unset
    /\ summary = Unset
    /\ calls = <<>>
    /\ out = <<>>
    /\ exhausted = <<>>
    /\ probe \in Probes

ProbeOllama ==
    /\ pc = "PROBE"
    /\ probe.gw = "ollama"
    /\ ~probe.done
    /\ probe' = [probe EXCEPT !.done = TRUE,
                              !.res = ask_ollama(Padded(probe.script, OllamaMaxRetries))]
    /\ UNCHANGED <<pc, locals, calls, out, exhausted>>

ProbeMcp ==
    /\ pc = "PROBE"
    /\ probe.gw = "mcp"
    /\ ~probe.done
    /\ probe' = [probe EXCEPT !.done = TRUE,
                              !.res = call_mcp_tool(Str("get_weather"),
                                          Padded(probe.script, McpMaxRetries))]
    /\ UNCHANGED <<pc, locals, calls, out, exhausted>>

NextRetry == ProbeOllama \/ ProbeMcp

SpecRetry == InitRetry /\ [][NextRetry]_vars

(***************************************************************************)
(* The tool server (mcp_server.py): the tools and the /mcp handler          *)
(***************************************************************************)

\* d[key]
PyIndex(j, key) ==
    IF ~IsObj(j) THEN Raised("TypeError")
    ELSE IF key \in DOMAIN j.v THEN Returned(j.v[key]) ELSE Raised("KeyError")

\* get_weather(city) when the weather service behaves as api
GetWeather(city, api) ==
    IF api.kind = "exception" THEN Raised("ConnectionError")
    ELSE IF ~api.json.ok THEN Raised("JSONDecodeError")
    ELSE IF api.status # 200
    THEN LET message == PyGet(api.json.val, "message", Str("Unknown error"))
         IN IF message.raised THEN message
            ELSE Returned(Str("Error fetching weather: " \o PyFormat(message.val)))
    ELSE LET data == api.json.val
             main == PyGet(data, "main", Null)
             weather == PyGet(data, "weather", Null)
             unable == Returned(Str("Unable to fetch weather for " \o PyFormat(city)
                                    \o ". Please check the city name."))
         IN IF main.raised THEN main
            ELSE IF ~Truthy(main.val) \/ ~Truthy(weather.val) THEN unable
            ELSE LET temp == PyIndex(main.val, "temp")
                     first == PyFirst(weather.val)
                 IN IF temp.raised THEN temp
                    ELSE IF first.raised THEN first
                    ELSE LET description == PyIndex(first.val, "description")
                         IN IF description.raised THEN description
                            ELSE IF ~IsStr(description.val) THEN Raised("AttributeError")
                            ELSE LET weather_info ==
                                         "The current temperature in " \o PyFormat(city)
                                         \o " is " \o PyFormat(temp.val) \o "°C with "
                                         \o description.val.v \o "."
                                 IN Returned(Str(
                                      IF Contains(Lower(description.val.v), "rain")
                                      THEN weather_info \o " Heavy rain expected. Carry an umbrella!"
                                      ELSE weather_info))

RECURSIVE JoinStr(_)
\* " ".join(str(x) for x in items)
JoinStr(items) ==
    IF items = <<>> THEN ""
    ELSE IF Len(items) = 1 THEN PyFormat(items[1])
    ELSE PyFormat(Head(items)) \o " " \o JoinStr(Tail(items))

\* send_notification(notification_input) when ntfy.sh behaves as ntfy; the
\* two emoji of the messages are written (ok) and (failed)
SendNotification(notification_input, ntfy) ==
    LET joined == IF notification_input.k = "list" THEN JoinStr(notification_input.v)
                  ELSE PyFormat(notification_input)
        bar == FirstIndex(joined, "|", 1)
        message == SubSeq(joined, 1, bar - 1)
        topic == SubSeq(joined, bar + 1, Len(joined))
    IN IF bar = 0 THEN "Invalid input. Format must be 'message|topic'."
       ELSE IF ntfy.kind = "exception" THEN "Error sending notification: ConnectionError"
       ELSE IF ntfy.status = 200
            THEN "(ok) Notification sent to '" \o Strip(topic) \o "': " \o Strip(message)
            ELSE "(failed) Failed to send notification (HTTP " \o NatToStr(ntfy.status) \o ")"

RpcResult(id, result) == Obj([jsonrpc |-> Str("2.0"), id |-> id, result |-> result])
RpcError(id, code, message) ==
    Obj([jsonrpc |-> Str("2.0"), id |-> id,
         error |-> Obj([code |-> Num(code), message |-> Str(message)])])

HttpResponse(status, body) == [status |-> status, body |-> body]

\* the tools as mcp/list_tools reports them, each reduced to its name
ToolList == List(<<Obj([name |-> Str("get_weather")]), Obj([name |-> Str("send_notification")])>>)

\* the tool name is not one the handler knows: an error in place of a text
RunTool_RejectsUnknown(name, arguments, api, ntfy) ==
    CASE name = Str("get_weather") ->
             LET city == PyGet(arguments, "city", Str(""))
             IN IF city.raised THEN city ELSE GetWeather(city.val, api)
      [] name = Str("send_notification") ->
             LET input == PyGet(arguments, "notification_input", Str(""))
             IN IF input.raised THEN input
                ELSE Returned(Str(SendNotification(input.val, ntfy)))
      [] OTHER -> Raised("ValueError")

\* lines 188-193: the text of the called tool
RunTool(name, arguments, api, ntfy) ==
    CASE name = Str("get_weather") ->
             LET city == PyGet(arguments, "city", Str(""))
             IN IF city.raised THEN city ELSE GetWeather(city.val, api)
      [] name = Str("send_notification") ->
             LET input == PyGet(arguments, "notification_input", Str(""))
             IN IF input.raised THEN input
                ELSE Returned(Str(SendNotification(input.val, ntfy)))
      [] OTHER -> Returned(Str("Unknown tool '" \o PyFormat(name) \o "'"))

\* handle(), lines 180-218: the reply body, or the exception it raises
Handle(payload, api, ntfy) ==
    LET method == PyGet(payload, "method", Null)
    IN IF method.raised THEN method
       ELSE LET id == PyGet(payload, "id", Null).val
            IN CASE method.val = Str("mcp/call_tool") ->
                      LET params == PyGet(payload, "params", EmptyObj).val
                          name == PyGet(params, "tool", Null)
                          arguments == PyGet(params, "arguments", EmptyObj)
                      IN IF name.raised THEN name
                         ELSE LET result_text == RunTool(name.val, arguments.val, api, ntfy)
                              IN IF result_text.raised THEN result_text
                                 ELSE Returned(RpcResult(id,
                                        Obj([content |->
                                               List(<<TextContent(result_text.val)>>)])))
                 [] method.val = Str("mcp/list_tools") ->
                      Returned(RpcResult(id, Obj([tools |-> ToolList])))
                 [] OTHER ->
                      Returned(RpcError(id, 0 - 32601, "Unknown method"))

\* the reply to a request that is not a JSON-RPC reply of the handler: the
\* exception left mcp_http_handler and the framework answers 500
Unhandled == HttpResponse(500, Unset)

\* mcp_http_handler for a POST, lines 171-229; an exception is reported by
\* its class name
McpHttpPost(body, api, ntfy) ==
    IF ~body.ok
    THEN HttpResponse(400, RpcError(Null, 0 - 32700, "Invalid JSON"))
    ELSE LET payload == body.val
             response == Handle(payload, api, ntfy)
         IN IF ~response.raised THEN HttpResponse(200, response.val)
            ELSE LET id == PyGet(payload, "id", Null)
                 IN IF id.raised THEN Unhandled
                    ELSE HttpResponse(500, RpcError(id.val, 0 - 32000,
                                        "Internal Server Error: " \o response.exc))

\* mcp_http_handler for a GET, lines 162-169
McpHttpGet ==
    HttpResponse(200,
        Obj([message |-> Str("MCP endpoint active. Use POST for JSON-RPC calls."),
             example |-> Obj([method |-> Str("mcp/call_tool"),
                              params |-> Obj([tool |-> Str("get_weather"),
                                              arguments |-> Obj([city |-> Str("Chennai")])])])]))

CallToolRequest(id, params) ==
    Obj([jsonrpc |-> Str("2.0"), id |-> id, method |-> Str("mcp/call_tool"),
         params |-> params])

\* JSON bodies posted to /mcp
RequestBodies ==
    { CallToolRequest(Str("1"), Obj([tool |-> Str("get_weather"),
                                     arguments |-> Obj([city |-> Str("Paris")])])),
      CallToolRequest(Num(7), Obj([tool |-> Str("get_weather"),
                                   arguments |-> Str("Paris")])),
      CallToolRequest(Str("1"), Obj([tool |-> Str("get_weather"), arguments |-> EmptyObj])),
      CallToolRequest(Str("1"), Obj([tool |-> Str("get_weather")])),
      CallToolRequest(Str("2"), Obj([tool |-> Str("send_notification"),
              arguments |-> Obj([notification_input |-> Str("light rain|weather_alerts")])])),
      CallToolRequest(Str("2"), Obj([tool |-> Str("send_notification"),
              arguments |-> Obj([notification_input |-> Str("no topic")])])),
      CallToolRequest(Str("2"), Obj([tool |-> Str("send_notification"),
              arguments |-> Obj([notification_input |->
                                   List(<<Str("storm"), Str("in Rome|ops")>>)])])),
      CallToolRequest(Str("2"), Obj([tool |-> Str("send_notification"),
                                     arguments |-> Null])),
      CallToolRequest(Str("abc"), Obj([tool |-> Str("reboot"),
                                       arguments |-> List(<<Num(1), Num(2)>>)])),
      CallToolRequest(Null, Obj([arguments |-> Obj([city |-> Str("Paris")])])),
      CallToolRequest(Str("3"), Obj([tool |-> Num(5)])),
      CallToolRequest(Str("3"), Null),
      CallToolRequest(Str("3"), List(<<Str("get_weather")>>)),
      Obj([jsonrpc |-> Str("2.0"), id |-> Str("4"), method |-> Str("mcp/call_tool")]),
      Obj([method |-> Str("mcp/call_tool"),
           params |-> Obj([tool |-> Str("get_weather"),
                           arguments |-> Obj([city |-> Str("Chennai")])])]),
      Obj([jsonrpc |-> Str("2.0"), id |-> Str("5"), method |-> Str("mcp/list_tools")]),
      Obj([jsonrpc |-> Str("2.0"), id |-> Str("6"), method |-> Str("mcp/ping")]),
      Obj([jsonrpc |-> Str("2.0"), id |-> Str("6"), method |-> Null]),
      Obj([tool |-> Str("get_weather"), arguments |-> Obj([city |-> Str("Paris")])]),
      List(<<>>),
      Null }

\* what request.get_json(force=True) makes of the posted bytes
PostedBodies == {ParseOk(b, 0) : b \in RequestBodies} \cup {ParseFail}

\* replies of api.openweathermap.org
WeatherApiReplies ==
    { Reply(200, Obj([main |-> Obj([temp |-> Num(18)]),
                      weather |-> List(<<Obj([description |-> Str("light rain")])>>)]), ""),
      Reply(200, Obj([main |-> Obj([temp |-> Num(31)]),
                      weather |-> List(<<Obj([description |-> Str("clear sky")])>>)]), ""),
      Reply(200, Obj([main |-> Obj([humidity |-> Num(40)]),
                      weather |-> List(<<Obj([description |-> Str("mist")])>>)]), ""),
      Reply(200, Obj([cod |-> Num(200)]), ""),
      Reply(404, Obj([cod |-> Str("404"), message |-> Str("city not found")]), ""),
      Reply(401, List(<<>>), ""),
      BadBody(502, "<html>Bad Gateway</html>"),
      TransportError }

\* replies of ntfy.sh
NtfyReplies == { Reply(200, EmptyObj, ""), Reply(429, EmptyObj, ""), TransportError }

ServerProbes ==
    {[gw |-> "server", http |-> h, body |-> b, api |-> a, ntfy |-> n,
      done |-> FALSE, res |-> Unset] :
        h \in {"GET", "POST"}, b \in PostedBodies, a \in WeatherApiReplies, n \in NtfyReplies}

InitServer ==
    /\ pc = "SERVING"
    /\ user_input = ""
    /\ model_output = Unset
    /\ tool = Unset
    /\ args = Unset
    /\ mcp_response = Unset
    /\ text = Unset
    /\ notif_result = Unset
    /\ notif_text = Unset
    /\ summary = Unset
    /\ calls = <<>>
    /\ out = <<>>
    /\ exhausted = <<>>
    /\ probe \in ServerProbes

ServeGet ==
    /\ pc = "SERVING"
    /\ probe.http = "GET"
    /\ ~probe.done
    /\ probe' = [probe EXCEPT !.done = TRUE, !.res = McpHttpGet]
    /\ UNCHANGED <<pc, locals, calls, out, exhausted>>

ServePost ==
    /\ pc = "SERVING"
    /\ probe.http = "POST"
    /\ ~probe.done
    /\ probe' = [probe EXCEPT !.done = TRUE,
                              !.res = McpHttpPost(probe.body, probe.api, probe.ntfy)]
    /\ UNCHANGED <<pc, locals, calls, out, exhausted>>

NextServer == ServeGet \/ ServePost

SpecServer == InitServer /\ [][NextServer]_vars

(***************************************************************************)
(* Vocabulary of the properties                                            *)
(***************************************************************************)

\* the Tool Gateway calls of the current turn, in order
McpCalls == SelectSeq(calls, LAMBDA c : c.gw = "mcp")

\* the Model Gateway calls of the current turn, in order
OllamaCalls == SelectSeq(calls, LAMBDA c : c.gw = "ollama")

\* the intent resolver has run in the current turn
Resolved == tool # Unset

\* the invocations {name, arguments-object} that text spells out as a
\* well-formed JSON object somewhere
WellFormedCalls(t) ==
    { [tool |-> JsonLoads(SubSeq(t, i, j)).val.v["name"],
       args |-> JsonLoads(SubSeq(t, i, j)).val.v["arguments"]] :
      <<i, j>> \in { p \in (1..Len(t)) \X (1..Len(t)) :
                       /\ p[1] < p[2]
                       /\ Ch(t, p[1]) = "{"
                       /\ Ch(t, p[2]) = "}"
                       /\ JsonLoads(SubSeq(t, p[1], p[2])).ok
                       /\ {"name", "arguments"} \subseteq
                              DOMAIN JsonLoads(SubSeq(t, p[1], p[2])).val.v
                       /\ IsObj(JsonLoads(SubSeq(t, p[1], p[2])).val.v["arguments"]) } }

\* the model text of the turn yields no structured call
NoStructuredCall == IsStr(model_output) /\ ~Truthy(detect_tool_call(model_output.v).tool)

\* word occurs in s, letter case ignored
ContainsCI(s, word) ==
    \E i \in 1..(Len(s) - Len(word) + 1) : Lower(SubSeq(s, i, i + Len(word) - 1)) = word

\* C1 (as claimed): when the model text contains a well-formed
\* {"name": ..., "arguments": {...}} object, detect_tool_call returns exactly
\* that name and those arguments, and the turn resolves to them without the
\* heuristic fallback, whatever the user typed.
C1_StructuredCallWins ==
    (Resolved /\ IsStr(model_output) /\ WellFormedCalls(model_output.v) # {}) =>
        /\ detect_tool_call(model_output.v) \in WellFormedCalls(model_output.v)
        /\ [tool |-> tool, args |-> args] \in WellFormedCalls(model_output.v)
        /\ \A i \in 1..Len(out) :
               out[i] \notin {"log:forcing_get_weather", "log:forcing_send_notification"}

\* the result text names one of rain, drizzle, shower, storm
NamesAlertWord(t) ==
    \E w \in {"rain", "drizzle", "shower", "storm"} : ContainsCI(t, w)

\* the secondary invocation the alert policy sends for result text t
AlertInvocation(t) ==
    McpPayload(Str("send_notification"),
               Obj([notification_input |-> Str(t \o "|weather_alerts")]))

\* the turn is past the point where the alert policy decides
PastAlertPoint == pc \in {"SUMMARIZED", "AWAIT_INPUT", "SESSION_ENDED"}

\* C2: in a turn the alert's send_notification call "<result_text>|weather_alerts"
\* is dispatched if and only if the resolved tool is get_weather and the
\* non-empty result text contains rain, drizzle, shower or storm in any letter
\* case; it is never dispatched for another tool, and at most once per turn.
C2_AlertIffWeatherKeyword ==
    /\ Len(McpCalls) <= 2
    /\ Len(McpCalls) = 2 =>
          /\ tool = Str("get_weather")
          /\ IsStr(text) /\ text.v # "" /\ NamesAlertWord(text.v)
          /\ McpCalls[2].req = AlertInvocation(text.v)
    /\ (PastAlertPoint /\ tool = Str("get_weather")
        /\ IsStr(text) /\ text.v # "" /\ NamesAlertWord(text.v)) =>
          Len(McpCalls) = 2

\* C2 witness: the alert fired on an upper-case keyword and the turn went on
C2_Witness ==
    /\ pc = "SUMMARIZED"
    /\ Len(McpCalls) = 2
    /\ text = Str("Chennai: 30C, THUNDERSTORM")

(***************************************************************************)
(* C3: retry bounds of the gateways                                        *)
(***************************************************************************)

MaxAttemptsOf(gw) == IF gw = "ollama" THEN OllamaMaxRetries ELSE McpMaxRetries

\* the remote service fails on this attempt
ServiceFails(gw, o) ==
    IF gw = "ollama"
    THEN o.kind = "exception" \/ ~o.json.ok \/ o.json.val.k # "obj"
    ELSE o.kind = "exception" \/ o.status # 200 \/ ~o.json.ok

RECURSIVE LeadingFailures(_, _)
\* number of consecutive failed attempts at the start of script
LeadingFailures(gw, script) ==
    IF script = <<>> \/ ~ServiceFails(gw, Head(script)) THEN 0
    ELSE 1 + LeadingFailures(gw, Tail(script))

\* what a call returns when this attempt succeeds
SuccessOf(gw, o) ==
    IF gw = "ollama"
    THEN IF "response" \in DOMAIN o.json.val.v THEN o.json.val.v["response"] ELSE Str(o.text)
    ELSE o.json.val

\* what a call returns when it gives up
GiveUpOf(gw) ==
    IF gw = "ollama"
    THEN Str("[Error: Ollama request failed after retries]")
    ELSE Obj([error |-> Str("MCP call failed for get_weather")])

\* N failures then a success: N + 1 attempts and the successful result
RetryThenSuccess(n) ==
    /\ ~probe.res.raised
    /\ probe.res.attempts = n + 1
    /\ probe.res.ret = SuccessOf(probe.gw, probe.script[n + 1])

\* C3 (as claimed): N <= max consecutive failures followed by an attempt that
\* would succeed give exactly N failed attempts, then a success, and the
\* successful result.
C3_RetryUpToMax ==
    (pc = "PROBE" /\ probe.done) =>
        LET n == LeadingFailures(probe.gw, probe.script)
        IN (n <= MaxAttemptsOf(probe.gw) /\ n < Len(probe.script)) => RetryThenSuccess(n)

\* C3 (amended): N < max consecutive failures followed by a success give
\* exactly N failed attempts, then the success, and its result; when all max
\* attempts fail, exactly max requests are made and the error value returned.
C3_RetryBelowMax ==
    (pc = "PROBE" /\ probe.done) =>
        LET n == LeadingFailures(probe.gw, probe.script)
            max == MaxAttemptsOf(probe.gw)
        IN /\ (n < max /\ n < Len(probe.script)) => RetryThenSuccess(n)
           /\ n >= max =>
                 /\ ~probe.res.raised
                 /\ probe.res.attempts = max
                 /\ probe.res.ret = GiveUpOf(probe.gw)
           /\ probe.res.attempts <= max

\* C3 witness: two failed attempts, then the third succeeds
C3_Witness ==
    /\ pc = "PROBE" /\ probe.done /\ probe.gw = "ollama"
    /\ LeadingFailures(probe.gw, probe.script) = 2
    /\ Len(probe.script) = 3
    /\ probe.res.attempts = 3
    /\ probe.res.ret # Str(OllamaSentinel)

(***************************************************************************)
(* C4 - C7: what a turn resolves to                                        *)
(***************************************************************************)

\* the ToolInvocation contract
ValidInvocation(req) ==
    LET name == req.v["tool"]
        a == req.v["arguments"]
    IN \/ /\ name = Str("get_weather")
          /\ IsObj(a) /\ "city" \in DOMAIN a.v
          /\ IsStr(a.v["city"]) /\ a.v["city"].v # ""
       \/ /\ name = Str("send_notification")
          /\ IsObj(a) /\ "notification_input" \in DOMAIN a.v
          /\ IsStr(a.v["notification_input"])
          /\ Contains(a.v["notification_input"].v, "|")

\* C4 (as claimed): every invocation passed to the Tool Gateway names
\* get_weather with a non-empty string city, or send_notification with a
\* string notification_input that contains "|".
C4_DispatchedInvocationsValid ==
    \A i \in 1..Len(McpCalls) : ValidInvocation(McpCalls[i].req)

Letters == UpperSet \cup LowerSet

\* position i starts an "in <words>" occurrence: "in", whitespace, a word
InWordsAt(u, i) ==
    /\ i + 2 <= Len(u)
    /\ SubSeq(u, i, i + 1) = "in"
    /\ Ch(u, i + 2) \in Whitespace
    /\ Ch(u, RunEnd(u, i + 2, Whitespace) + 1) \in Letters

\* the words of the occurrence at i: letters and spaces, trimmed
WordsAt(u, i) ==
    LET first == RunEnd(u, i + 2, Whitespace) + 1
    IN Strip(SubSeq(u, first, RunEnd(u, first, Letters \cup {" "})))

\* the city the weather rule is to send for user input u
ExpectedCity(u) ==
    IF \E i \in 1..Len(u) : InWordsAt(u, i)
    THEN WordsAt(u, CHOOSE i \in 1..Len(u) :
                        InWordsAt(u, i) /\ \A m \in 1..(i - 1) : ~InWordsAt(u, m))
    ELSE "Chennai"

\* C5 (as claimed): with no structured call and "weather" in the user input
\* (any case) the turn resolves to get_weather with city the words of the
\* first "in <words>" occurrence, Chennai when there is none; "weather in
\* Paris" gives Paris; the weather rule wins over notify/alert.
C5_WeatherFallbackCity ==
    (Resolved /\ NoStructuredCall /\ WellFormedCalls(model_output.v) = {}
     /\ ContainsCI(user_input, "weather")) =>
        /\ tool = Str("get_weather")
        /\ args = Obj([city |-> Str(ExpectedCity(user_input))])
        /\ user_input = "weather in Paris" => args = Obj([city |-> Str("Paris")])

\* C6: with no structured call, no "weather" and "notify" or "alert" in the
\* user input (any case) the turn resolves to send_notification with
\* notification_input = user input followed by "|general_alerts", and that is
\* the invocation dispatched.
C6_NotifyFallback ==
    (Resolved /\ NoStructuredCall /\ ~ContainsCI(user_input, "weather")
     /\ (ContainsCI(user_input, "notify") \/ ContainsCI(user_input, "alert"))) =>
        /\ tool = Str("send_notification")
        /\ args = Obj([notification_input |-> Str(user_input \o "|general_alerts")])
        /\ user_input = "notify the team" =>
              args.v["notification_input"] = Str("notify the team|general_alerts")
        /\ Len(McpCalls) >= 1 => McpCalls[1].req = McpPayload(tool, args)

\* C6 witness: "notify the team" was resolved and dispatched
C6_Witness ==
    /\ user_input = "notify the team"
    /\ model_output = Str("I cannot help with that.")
    /\ Len(McpCalls) = 1
    /\ tool = Str("send_notification")

\* C7: with no structured call and none of "weather", "notify", "alert" in the
\* user input, nothing is resolved: the turn makes no Tool Gateway call and
\* no summarization call (its only gateway call is the model completion) and
\* the loop is back in AWAIT_INPUT.
C7_NothingResolved ==
    (Resolved /\ NoStructuredCall /\ ~ContainsCI(user_input, "weather")
     /\ ~ContainsCI(user_input, "notify") /\ ~ContainsCI(user_input, "alert")) =>
        /\ pc = "AWAIT_INPUT"
        /\ ~Truthy(tool)
        /\ McpCalls = <<>>
        /\ calls = <<OllamaCall(EnforcedInput(user_input))>>

\* C7 witness: "hello" and a model text without JSON ended the turn
C7_Witness ==
    /\ pc = "AWAIT_INPUT"
    /\ user_input = "hello"
    /\ model_output = Str("I cannot help with that.")
    /\ tool = Null
    /\ out = <<"print:ollama", "log:no_tool_call">>

(***************************************************************************)
(* C8 - C10: tool responses                                                *)
(***************************************************************************)

\* the success shape: result.content is a non-empty list whose first element
\* is an object with a string text
HasResultText(resp) ==
    /\ IsObj(resp) /\ "result" \in DOMAIN resp.v
    /\ IsObj(resp.v["result"]) /\ "content" \in DOMAIN resp.v["result"].v
    /\ resp.v["result"].v["content"].k = "list"
    /\ Len(resp.v["result"].v["content"].v) > 0
    /\ IsObj(resp.v["result"].v["content"].v[1])
    /\ "text" \in DOMAIN resp.v["result"].v["content"].v[1].v
    /\ IsStr(resp.v["result"].v["content"].v[1].v["text"])

HasError(resp) == IsObj(resp) /\ "error" \in DOMAIN resp.v

\* C8 (as claimed): every value call_mcp_tool returns has exactly one of
\* result text and error populated.
C8_ExactlyOneOfTextAndError ==
    \A resp \in {mcp_response, notif_result} \ {Unset} :
        IsObj(resp) /\ (HasResultText(resp) # HasError(resp))

\* result.content is a non-empty list whose first element has a text field
HasTextField(resp) ==
    /\ IsObj(resp) /\ "result" \in DOMAIN resp.v
    /\ IsObj(resp.v["result"]) /\ "content" \in DOMAIN resp.v["result"].v
    /\ resp.v["result"].v["content"].k = "list"
    /\ Len(resp.v["result"].v["content"].v) > 0
    /\ IsObj(resp.v["result"].v["content"].v[1])
    /\ "text" \in DOMAIN resp.v["result"].v["content"].v[1].v

\* C9 (as claimed): once the Tool Gateway has returned a JSON object, the
\* result text is extracted without an exception, and it is "" when
\* result.content is not a non-empty list whose first element has a text.
C9_ExtractionNeverRaises ==
    (mcp_response # Unset /\ IsObj(mcp_response)) =>
        /\ text # Unset
        /\ \A i \in 1..Len(out) :
               out[i] \notin {"log:unexpected_error:AttributeError",
                              "log:unexpected_error:IndexError",
                              "log:unexpected_error:KeyError",
                              "log:unexpected_error:TypeError"}
        /\ ~HasTextField(mcp_response) => text = Str("")

\* C10 (as claimed): a turn in which the alert fired and its dispatch
\* returned a JSON object (error-tagged, error-shaped, or with an empty or
\* malformed result.content) does not return to AWAIT_INPUT without having
\* sent the summarization prompt built from the primary tool result.
C10_AlertThenSummarized ==
    (pc = "AWAIT_INPUT" /\ Len(McpCalls) = 2 /\ IsObj(notif_result)) =>
        /\ Len(calls) = 4
        /\ calls[4] = OllamaCall(SummaryPrompt(text))

(***************************************************************************)
(* How sessions end and how turns fail                                     *)
(***************************************************************************)

Last(seq) == seq[Len(seq)]

\* a log entry written by the handler of line 181
IsTurnFailure(e) == Len(e) > 21 /\ SubSeq(e, 1, 21) = "log:unexpected_error:"

\* C11: the session is in SESSION_ENDED only after the goodbye of an exit or
\* quit line (compared case-insensitively, before any gateway call) or after
\* the notice printed for an interrupt; an exception caught inside a turn is
\* the last thing the turn does and leaves the loop at AWAIT_INPUT.
C11_EndsOnlyOnExitOrInterrupt ==
    /\ pc = "SESSION_ENDED" =>
         /\ out # <<>>
         /\ Last(out) \in {"print:goodbye", "print:session_ended"}
         /\ Last(out) = "print:goodbye" =>
               Lower(user_input) \in {"exit", "quit"} /\ calls = <<>>
    /\ \A i \in 1..Len(out) :
         IsTurnFailure(out[i]) => i = Len(out) /\ pc = "AWAIT_INPUT"

\* a turn that had reached the Tool Gateway failed with an exception and the
\* loop is waiting for input again
C11_Witness ==
    /\ pc = "AWAIT_INPUT" /\ out # <<>> /\ IsTurnFailure(Last(out))
    /\ Len(calls) >= 2

\* C12 (as claimed): an interrupt delivered while the connector waits for
\* input or inside a gateway call, the startup system-instruction call
\* included, is handled inside chat_loop and ends the session in
\* SESSION_ENDED; it never escapes chat_loop as an uncaught exception.
C12_InterruptEndsCleanly == pc # "CRASHED"

(***************************************************************************)
(* C13, C14: the gateways called alone                                     *)
(***************************************************************************)

\* C13 (as claimed): in call_mcp_tool every failed attempt, a non-200 status
\* as much as a transport exception, is followed by the fixed delay before
\* the next attempt is issued: a call that made k attempts has slept at
\* least k - 1 times.
C13_DelayAfterEveryFailedAttempt ==
    (pc = "PROBE" /\ probe.done /\ probe.gw = "mcp" /\ ~probe.res.raised) =>
        probe.res.sleeps >= probe.res.attempts - 1

\* C14 (as claimed): whatever the model service replies on each attempt,
\* JSON objects whose response is null or not a string included, ask_ollama
\* raises nothing and returns a text string.
C14_AlwaysReturnsText ==
    (pc = "PROBE" /\ probe.done /\ probe.gw = "ollama") =>
        ~probe.res.raised /\ IsStr(probe.res.ret)

(***************************************************************************)
(* C15, C16: what a turn calls, and in which order                         *)
(***************************************************************************)

\* a turn has made a gateway call (the call standing alone in the history
\* after startup is the system instruction, not a turn's)
TurnHasCalled == calls # <<>> /\ calls # <<OllamaCall(SystemInstruction)>>

\* C15: the gateway calls of one turn are, in this order, the model call for
\* the typed line, the primary tool call for the resolved invocation, at
\* most one alert call, and the summarization call; each starts after the
\* previous one returned, and the summarization call is made only after a
\* primary dispatch that returned a non-empty text, for that text.
C15_GatewayCallOrder ==
    TurnHasCalled =>
        /\ Len(calls) <= 4
        /\ calls[1] = OllamaCall(EnforcedInput(user_input))
        /\ Len(calls) >= 2 =>
              /\ model_output # Unset
              /\ calls[2] = McpCall(tool, args)
        /\ Len(calls) >= 3 =>
              /\ mcp_response # Unset
              /\ text \notin {Unset, Null, Str("")}
              /\ \/ calls[3] = OllamaCall(SummaryPrompt(text)) /\ Len(calls) = 3
                 \/ calls[3].gw = "mcp" /\ tool = Str("get_weather")
        /\ Len(calls) = 4 =>
              /\ calls[3].gw = "mcp"
              /\ notif_result # Unset
              /\ calls[4] = OllamaCall(SummaryPrompt(text))

\* a turn that made all four calls
C15_Witness ==
    /\ Len(calls) = 4 /\ pc = "AWAIT_INPUT"
    /\ summary # Unset

\* C16: when the primary dispatch yields an empty text the turn ends there:
\* no alert call, no summarization call, the loop is back at AWAIT_INPUT and
\* the session has not ended.  This is what happens when the tool service
\* fails on every attempt of the dispatch (HTTP 500 each time, say): the
\* gateway returns the error-tagged response, whose text is empty.
C16_EmptyResultEndsTurn ==
    /\ (TurnHasCalled /\ Len(calls) >= 2 /\ exhausted[2]) =>
          /\ mcp_response = McpFailed(tool)
          /\ text = Str("")
    /\ text = Str("") =>
          /\ pc = "AWAIT_INPUT"
          /\ Len(calls) = 2
          /\ Last(out) = "log:empty_mcp_result"
          /\ notif_result = Unset
          /\ summary = Unset

\* the tool service failed on both attempts of the primary dispatch
C16_Witness ==
    /\ TurnHasCalled /\ Len(calls) = 2 /\ exhausted[2]
    /\ text = Str("")
    /\ pc = "AWAIT_INPUT"

(***************************************************************************)
(* C17, C18: what a failing Model Gateway does to a turn                   *)
(***************************************************************************)

\* what ask_ollama hands back when the model service did not answer with a
\* response: the sentinel after the last retry, or the raw body of a reply
\* that carries no response field
GatewayFailureValues ==
    {Str(OllamaSentinel)} \cup
    {Str(o.text) : o \in {r \in OllamaReplies : "response" \notin DOMAIN r.json.val.v}}

Printed(entry) == \E i \in 1..Len(out) : out[i] = entry

\* C17 (as claimed): a gateway failure value is never shown to the user,
\* neither as the model's response nor as the final answer.
C17_FailureNeverPresented ==
    /\ Printed("print:ollama") => model_output \notin GatewayFailureValues
    /\ Printed("print:final_answer") => summary \notin GatewayFailureValues

\* user_input holds one of the words the heuristic fallback looks for
HasFallbackKeyword ==
    \E w \in {"weather", "notify", "alert"} : ContainsCI(user_input, w)

\* C18: when the model service fails on every attempt of a turn's model
\* call, the turn goes on with the sentinel as model text: it holds no
\* structured call, the fallback heuristics decide, and for a user input
\* with a recognized keyword the forced tool is dispatched in that turn.
C18_SentinelStillDispatches ==
    (TurnHasCalled /\ exhausted[1] /\ pc # "RESOLVED") =>
        /\ model_output = Str(OllamaSentinel)
        /\ NoStructuredCall
        /\ HasFallbackKeyword =>
              /\ tool \in {Str("get_weather"), Str("send_notification")}
              /\ Printed("log:forcing_get_weather") \/ Printed("log:forcing_send_notification")
              /\ \/ pc = "DISPATCHED" /\ Len(calls) = 1
                 \/ Len(calls) >= 2 /\ calls[2] = McpCall(tool, args)

\* the model service was down for the turn, and "notify the team" was
\* dispatched all the same
C18_Witness ==
    /\ TurnHasCalled /\ exhausted[1]
    /\ model_output = Str(OllamaSentinel)
    /\ user_input = "notify the team"
    /\ Len(calls) >= 2 /\ calls[2].gw = "mcp"
    /\ mcp_response # Unset

(***************************************************************************)
(* C19: input() failing                                                    *)
(***************************************************************************)

\* C19: when reading the user's line fails with an exception that is not an
\* interrupt (end of input), the turn fails like any other: the failure is
\* logged, no gateway is called, the session does not end and the loop is at
\* AWAIT_INPUT, about to read again.
C19_InputFailureKeepsLooping ==
    Printed("log:unexpected_error:EOFError") =>
        /\ out = <<"log:unexpected_error:EOFError">>
        /\ calls = <<>>
        /\ pc = "AWAIT_INPUT"

\* input() has just raised EOFError
C19_Witness ==
    /\ Printed("log:unexpected_error:EOFError")
    /\ pc = "AWAIT_INPUT"
    /\ model_output = Unset

(***************************************************************************)
(* C20: replies of the tool server's /mcp endpoint                         *)
(***************************************************************************)

\* a POST has been answered
Served == pc = "SERVING" /\ probe.done /\ probe.http = "POST"

\* the posted body is a JSON object whose method is mcp/call_tool
IsCallTool ==
    /\ probe.body.ok /\ IsObj(probe.body.val)
    /\ "method" \in DOMAIN probe.body.val.v
    /\ probe.body.val.v["method"] = Str("mcp/call_tool")

\* the id of the posted object, null when it has none
RequestId == IF "id" \in DOMAIN probe.body.val.v THEN probe.body.val.v["id"] ELSE Null

\* params, tool and arguments as the handler defaults them
RequestParams ==
    IF "params" \in DOMAIN probe.body.val.v THEN probe.body.val.v["params"] ELSE EmptyObj
RequestTool ==
    IF "tool" \in DOMAIN RequestParams.v THEN RequestParams.v["tool"] ELSE Null
RequestArguments ==
    IF "arguments" \in DOMAIN RequestParams.v THEN RequestParams.v["arguments"] ELSE EmptyObj

KnownTools == {Str("get_weather"), Str("send_notification")}

\* the reply is a JSON-RPC result with the request's id and exactly one text
\* content element
SuccessShape ==
    /\ probe.res.status = 200
    /\ probe.res.body # Unset /\ IsObj(probe.res.body)
    /\ DOMAIN probe.res.body.v = {"jsonrpc", "id", "result"}
    /\ probe.res.body.v["id"] = RequestId
    /\ IsObj(probe.res.body.v["result"])
    /\ DOMAIN probe.res.body.v["result"].v = {"content"}
    /\ LET content == probe.res.body.v["result"].v["content"]
       IN /\ content.k = "list" /\ Len(content.v) = 1
          /\ IsObj(content.v[1])
          /\ DOMAIN content.v[1].v = {"type", "text"}
          /\ content.v[1].v["type"] = Str("text")
          /\ IsStr(content.v[1].v["text"])

ReplyText == probe.res.body.v["result"].v["content"].v[1].v["text"].v

\* the reply is a JSON-RPC error
ErrorShape ==
    /\ probe.res.body # Unset /\ IsObj(probe.res.body)
    /\ "error" \in DOMAIN probe.res.body.v

ErrorCode == probe.res.body.v["error"].v["code"].v

\* handling the call raises: params is no object, the arguments of a known
\* tool are no object, or get_weather itself raises
HandlingRaises ==
    \/ ~IsObj(RequestParams)
    \/ RequestTool \in KnownTools /\ ~IsObj(RequestArguments)
    \/ /\ RequestTool = Str("get_weather")
       /\ GetWeather(IF "city" \in DOMAIN RequestArguments.v
                     THEN RequestArguments.v["city"] ELSE Str(""), probe.api).raised

\* for unknown tool names the text says so
UnknownToolIsNoError ==
    (IsCallTool /\ IsObj(RequestParams) /\ RequestTool \notin KnownTools) =>
        SuccessShape /\ ReplyText = "Unknown tool '" \o PyFormat(RequestTool) \o "'"

\* the error shape comes with one of the three codes, each for its cause
ErrorOnlyForThreeCauses ==
    ErrorShape =>
        /\ ErrorCode \in {0 - 32601, 0 - 32700, 0 - 32000}
        /\ ErrorCode = 0 - 32700 <=> ~probe.body.ok
        /\ ErrorCode = 0 - 32601 =>
              /\ IsObj(probe.body.val)
              /\ PyGet(probe.body.val, "method", Null).val
                     \notin {Str("mcp/call_tool"), Str("mcp/list_tools")}
        /\ ErrorCode = 0 - 32000 => Handle(probe.body.val, probe.api, probe.ntfy).raised

\* C20 (as claimed): every POST whose body is a JSON object with method
\* mcp/call_tool is answered with the success shape carrying the request's id
\* and exactly one text content element, unknown tool names included; the
\* error shape is returned only for an unknown method, unparseable JSON or an
\* internal exception.
C20_CallToolAlwaysSucceeds ==
    Served =>
        /\ IsCallTool => SuccessShape
        /\ UnknownToolIsNoError
        /\ ErrorOnlyForThreeCauses

\* C20 (amended): such a POST is answered with the success shape unless
\* handling the call raises (params or a known tool's arguments are no
\* object, or get_weather raises); then the reply is the error -32000 with
\* the request's id and HTTP 500.  Unknown tool names give the text
\* "Unknown tool '<tool>'" in the success shape.  The error shape is returned
\* only for an unknown method, unparseable JSON or an internal exception.
C20_CallToolSucceedsUnlessRaises ==
    Served =>
        /\ (IsCallTool /\ ~HandlingRaises) => SuccessShape
        /\ (IsCallTool /\ HandlingRaises) =>
              /\ ErrorShape /\ ErrorCode = 0 - 32000
              /\ probe.res.status = 500
              /\ probe.res.body.v["id"] = RequestId
        /\ UnknownToolIsNoError
        /\ ErrorOnlyForThreeCauses

\* the tool "reboot" was called and answered with a text
C20_Witness ==
    /\ Served /\ IsCallTool /\ IsObj(RequestParams)
    /\ RequestTool = Str("reboot")
    /\ SuccessShape
    /\ ReplyText = "Unknown tool 'reboot'"
    /\ probe.res.body.v["id"] = Str("abc")
====
